---- MODULE Spec2Model ----
(***************************************************************************)
(* A model of the Mimiry Python SDK: the HTTP status classifier            *)
(* (mimiry/exceptions.py: raise_for_status), the request dispatcher        *)
(* (client.py: _request) and the job poller (client.py: wait_for_job,      *)
(* submit_job_and_wait).  Time is the monotonic clock in integer seconds.  *)
(***************************************************************************)
EXTENDS Integers, Sequences, FiniteSets, TLC

VARIABLES
    pc,                 \* position of the calling thread
    call,               \* the public method called, with its arguments
    now,                \* time.monotonic()
    job_id,             \* wait_for_job: parameter job_id
    poll_interval,      \* wait_for_job: parameter poll_interval
    timeout,            \* wait_for_job: parameter timeout
    terminal_statuses,  \* wait_for_job: local terminal_statuses (a list)
    start,              \* wait_for_job: local start
    job,                \* wait_for_job: local job (None before the first fetch)
    created,            \* submit_job_and_wait: local job (None before submit_job returns)
    elapsed,            \* wait_for_job: local elapsed (None before the first check)
    response,           \* the last completed HTTP exchange (None before the first)
    result,             \* what the public method returned or raised
    requests,           \* history: every HTTP request sent, in order
    trace,              \* history: every exchange of wait_for_job with the clock after it
    sleeps,             \* history: number of time.sleep calls begun
    classified          \* history: number of raise_for_status calls

vars == <<pc, call, now, job_id, poll_interval, timeout, terminal_statuses,
          start, job, created, elapsed, response, result, requests, trace, sleeps,
          classified>>

-----------------------------------------------------------------------------
(* Bounds of the model *)

MaxPollInterval == 2
MaxTimeout == 2
MaxLatency == 1
MaxOversleep == 1

\* with poll_interval <= 0 the loop of wait_for_job has no bound of its own:
\* the model follows such a call for MaxFetches fetches
MaxFetches == 3

PollIntervals == 0..MaxPollInterval
Timeouts == (0 - 1)..MaxTimeout

\* the default of poll_interval, and a timeout between two and three of them
DefaultPollInterval == 10
LongTimeout == 25

\* the (poll_interval, timeout) pairs a caller passes; neither is validated
Timings ==
    (PollIntervals \X Timeouts) \cup {<<DefaultPollInterval, LongTimeout>>}
JobIds == {"j1", "j2"}

-----------------------------------------------------------------------------
(* Python values *)

\* Python's None and a value that is not None
None == [some |-> FALSE]
Some(v) == [some |-> TRUE, val |-> v]

\* the empty dict {}
EmptyDict == <<>>

\* dict.get(key): the value at key, or None
DictGet(d, key) == IF key \in DOMAIN d THEN Some(d[key]) ELSE None

\* dict.get(key, default)
DictGetDefault(d, key, default) == IF key \in DOMAIN d THEN d[key] ELSE default

\* str(x) inside an f-string, for x a string or None
Str(x) == IF x = None THEN "None" ELSE x.val

\* x in a list
InList(x, list) == \E i \in 1..Len(list) : list[i] = x

\* a JSON array as json() returns it: a list, kept apart from the dicts
JsonArray(items) == [json_array |-> items]

\* the value is a dict: it has get and string keys
IsDict(v) == "json_array" \notin DOMAIN v

\* the exceptions of Python and of the libraries the SDK lets through; none
\* is a MimiryError and none carries a status code
AttributeError == [cls |-> "AttributeError"]
TypeError == [cls |-> "TypeError"]
KeyError(key) == [cls |-> "KeyError", key |-> key]
JSONDecodeError == [cls |-> "JSONDecodeError"]

-----------------------------------------------------------------------------
(* mimiry/exceptions.py *)

\* MimiryError.__init__ (and the subclasses, which inherit it): cls is the class
\* instantiated, status_code and response_body are None when omitted
MimiryErrorInit(cls, message, status_code, response_body) ==
    [cls |-> cls,
     message |-> message,
     status_code |-> status_code,
     response_body |-> IF response_body = None \/ DOMAIN response_body.val = {}
                       THEN EmptyDict
                       ELSE response_body.val]

STATUS_CODE_MAP ==
    [c \in {401, 402, 403, 404, 429} |->
        CASE c = 401 -> "AuthenticationError"
          [] c = 402 -> "InsufficientCreditsError"
          [] c = 403 -> "InsufficientScopeError"
          [] c = 404 -> "NotFoundError"
          [] c = 429 -> "RateLimitError"]

\* as ExtractMessage, with the two keys looked up in the other order
ExtractMessage_PrefersMessage(response_body) ==
    DictGetDefault(response_body, "message",
                   DictGetDefault(response_body, "error", "Unknown error"))

\* line 64: response_body.get("error", response_body.get("message", "Unknown error"))
ExtractMessage(response_body) ==
    DictGetDefault(response_body, "error",
                   DictGetDefault(response_body, "message", "Unknown error"))

Returns(v) == [kind |-> "return", value |-> v]
Raises(e) == [kind |-> "raise", exc |-> e]

\* as raise_for_status, with the status table consulted after the 5xx test and
\* only for the statuses below 404
raise_for_status_ShortTable(status_code, response_body) ==
    IF 200 <= status_code /\ status_code < 300
    THEN Returns(None)
    ELSE IF ~IsDict(response_body)
    THEN Raises(AttributeError)
    ELSE LET message == ExtractMessage(response_body)
         IN  IF status_code >= 500
             THEN Raises(MimiryErrorInit("ServerError", message,
                                         Some(status_code), Some(response_body)))
             ELSE IF status_code \in {401, 402, 403}
             THEN Raises(MimiryErrorInit(STATUS_CODE_MAP[status_code], message,
                                         Some(status_code), Some(response_body)))
             ELSE Raises(MimiryErrorInit("MimiryError", message,
                                         Some(status_code), Some(response_body)))

\* line 64 calls response_body.get, which a body that is not a dict lacks
raise_for_status(status_code, response_body) ==
    IF 200 <= status_code /\ status_code < 300
    THEN Returns(None)
    ELSE IF ~IsDict(response_body)
    THEN Raises(AttributeError)
    ELSE LET message == ExtractMessage(response_body)
         IN  IF status_code \in DOMAIN STATUS_CODE_MAP
             THEN Raises(MimiryErrorInit(STATUS_CODE_MAP[status_code], message,
                                         Some(status_code), Some(response_body)))
             ELSE IF status_code >= 500
             THEN Raises(MimiryErrorInit("ServerError", message,
                                         Some(status_code), Some(response_body)))
             ELSE Raises(MimiryErrorInit("MimiryError", message,
                                         Some(status_code), Some(response_body)))

-----------------------------------------------------------------------------
(* client.py: the request dispatcher and the endpoint methods *)

\* response.content: no bytes, the bytes of a JSON value, or other bytes
NoContent == [kind |-> "empty"]
JsonContent(v) == [kind |-> "json", value |-> v]
TextContent(s) == [kind |-> "text", text |-> s]

\* an HTTP response as the transport returns it
Response(status_code, content) == [status_code |-> status_code, content |-> content]

\* a response whose content is the JSON value body
JsonResponse(status_code, body) == Response(status_code, JsonContent(body))

\* line 59: response.json() if response.content else {}
ParseBody(resp) ==
    IF resp.content.kind = "empty"
    THEN Returns(EmptyDict)
    ELSE IF resp.content.kind = "json"
    THEN Returns(resp.content.value)
    ELSE Raises(JSONDecodeError)

\* _request, after the transport returned resp: parse the content, classify
\* the status, return the body
RequestOutcome(resp) ==
    LET body == ParseBody(resp)
    IN  IF body.kind = "raise"
        THEN body
        ELSE LET r == raise_for_status(resp.status_code, body.value)
             IN  IF r.kind = "raise" THEN r ELSE Returns(body.value)

\* the number of calls of raise_for_status _request makes for resp (line 60
\* is reached when line 59 has not raised)
Classifications(resp) == IF ParseBody(resp).kind = "return" THEN 1 ELSE 0

\* what the transport raises when no response arrives (httpx.TransportError);
\* it is not a MimiryError and carries no status code
TransportError == [cls |-> "TransportError"]

\* `if x:` for an optional string argument
Truthy(x) == x # None /\ x.val # ""

\* _get(path, params): GET with the query parameters (None when not given)
GetRequest(path, params) == [method |-> "GET", path |-> path, params |-> params]

\* _post(path, json)
PostRequest(path, json) == [method |-> "POST", path |-> path, json |-> json]

\* _delete(path)
DeleteRequest(path) == [method |-> "DELETE", path |-> path]

\* the request list_jobs sends: GET /jobs
ListJobsRequest == GetRequest(<<"jobs">>, None)

\* as GetJobRequest, sent with the method of cancel_job
GetJobRequest_Delete(jid) == DeleteRequest(<<"jobs", jid>>)

\* the request get_job sends: GET /jobs/{job_id}
GetJobRequest(jid) == GetRequest(<<"jobs", jid>>, None)

\* the request cancel_job sends: DELETE /jobs/{job_id}
CancelJobRequest(jid) == DeleteRequest(<<"jobs", jid>>)

\* submit_job: the payload, with the defaults of the signature;
\* max_runtime_seconds is left out when it is None
SubmitPayload(kw) ==
    LET base == [name |-> kw.name,
                 instance_type |-> kw.instance_type,
                 image |-> kw.image,
                 location |-> kw.location,
                 ssh_key_ids |-> kw.ssh_key_ids,
                 startup_script |-> DictGetDefault(kw, "startup_script", ""),
                 provider |-> DictGetDefault(kw, "provider", "datacrunch"),
                 auto_shutdown |-> DictGetDefault(kw, "auto_shutdown", TRUE),
                 heartbeat_timeout_seconds |->
                     DictGetDefault(kw, "heartbeat_timeout_seconds", 600)]
        mrs == DictGetDefault(kw, "max_runtime_seconds", None)
    IN  IF mrs # None
        THEN [k \in DOMAIN base \cup {"max_runtime_seconds"} |->
                 IF k = "max_runtime_seconds" THEN mrs.val ELSE base[k]]
        ELSE base

\* the request submit_job sends: POST /jobs with the payload
SubmitJobRequest(kw) == PostRequest(<<"jobs">>, SubmitPayload(kw))

\* the params dict of the endpoints that filter by provider
ProviderParams(provider) ==
    IF Truthy(provider) THEN [provider |-> provider.val] ELSE EmptyDict

\* the request list_instance_types sends
ListInstanceTypesRequest(currency, provider) ==
    GetRequest(<<"instances">>,
               Some(IF Truthy(provider)
                    THEN [currency |-> currency, provider |-> provider.val]
                    ELSE [currency |-> currency]))

\* the request check_availability sends
CheckAvailabilityRequest(instance_type, provider) ==
    GetRequest(IF Truthy(instance_type)
               THEN <<"availability", instance_type.val>>
               ELSE <<"availability">>,
               Some(ProviderParams(provider)))

\* the request list_locations sends
ListLocationsRequest(provider) ==
    GetRequest(<<"locations">>, Some(ProviderParams(provider)))

\* the request list_images sends
ListImagesRequest(instance_type, provider) ==
    LET keys == (IF Truthy(instance_type) THEN {"instance_type"} ELSE {})
                \cup (IF Truthy(provider) THEN {"provider"} ELSE {})
    IN  GetRequest(<<"images">>,
                   Some([k \in keys |-> IF k = "instance_type"
                                        THEN instance_type.val
                                        ELSE provider.val]))

\* the request list_providers sends
ListProvidersRequest == GetRequest(<<"providers">>, None)

\* the request list_ssh_keys sends
ListSshKeysRequest == GetRequest(<<"ssh-keys">>, None)

\* the request add_ssh_key sends
AddSshKeyRequest(name, public_key) ==
    PostRequest(<<"ssh-keys">>, [name |-> name, public_key |-> public_key])

\* the request delete_ssh_key sends
DeleteSshKeyRequest(key_id) == DeleteRequest(<<"ssh-keys", key_id>>)

-----------------------------------------------------------------------------
(* client.py: wait_for_job *)

\* line 183-184
DefaultTerminalStatuses == <<"completed", "failed", "cancelled">>

ResolveTerminal(ts) == IF ts = None THEN DefaultTerminalStatuses ELSE ts.val

\* as IsTerminal, with the first entry of the list never matched
IsTerminal_SkipsFirst(j, ts) ==
    LET s == DictGet(j, "status")
    IN  s # None /\ InList(s.val, SubSeq(ts, 2, Len(ts)))

\* line 189: job.get("status") in terminal_statuses
IsTerminal(j, ts) ==
    LET s == DictGet(j, "status")
    IN  s # None /\ InList(s.val, ts)

\* as DeadlineExceeded, comparing the elapsed time alone
DeadlineExceeded_NoInterval(el, pi, t) == el > t

\* as DeadlineExceeded, with the boundary counted as exceeded
DeadlineExceeded_Inclusive(el, pi, t) == el + pi >= t

\* as DeadlineExceeded, with the interval subtracted
DeadlineExceeded_Minus(el, pi, t) == el - pi > t

\* line 192
DeadlineExceeded(el, pi, t) == el + pi > t

\* as TimeoutError, raised with an HTTP status attached
TimeoutError_WithStatus(jid, t, j) ==
    MimiryErrorInit("MimiryError",
                    <<"Timed out waiting for job ", jid, " after ", t,
                      "s (last status: ", Str(DictGet(j, "status")), ")">>,
                    Some(408), None)

\* lines 193-196: the message is an f-string over job_id, timeout and the status
TimeoutError(jid, t, j) ==
    MimiryErrorInit("MimiryError",
                    <<"Timed out waiting for job ", jid, " after ", t,
                      "s (last status: ", Str(DictGet(j, "status")), ")">>,
                    None, None)

\* lines 188-196: one pass of the loop body, given the exchange resp of get_job
\* and the reading clock of time.monotonic() at line 191.  next is "done" with
\* the result of the call, or "sleep" when line 197 is reached.  job.get of
\* line 189 raises when the body is not a dict.
LoopBody(jid, pi, t, ts, st, resp, clock) ==
    LET r == RequestOutcome(resp)
    IN  IF r.kind = "raise"
        THEN [next |-> "done", result |-> r]
        ELSE IF ~IsDict(r.value)
        THEN [next |-> "done", result |-> Raises(AttributeError)]
        ELSE IF IsTerminal(r.value, ts)
        THEN [next |-> "done", result |-> Returns(r.value)]
        ELSE IF DeadlineExceeded(clock - st, pi, t)
        THEN [next |-> "done", result |-> Raises(TimeoutError(jid, t, r.value))]
        ELSE [next |-> "sleep", result |-> None]

\* wait_for_job as a function of what the server and the clock did: tr is the
\* sequence of exchanges with the clock read after each; the result of the call,
\* or None when the call has not ended within tr
RECURSIVE WaitForJobRun(_, _, _, _, _, _, _)
WaitForJobRun(jid, pi, t, ts, st, tr, i) ==
    IF i > Len(tr)
    THEN None
    ELSE LET b == LoopBody(jid, pi, t, ts, st, tr[i].response, tr[i].clock)
         IN  IF b.next = "done"
             THEN b.result
             ELSE WaitForJobRun(jid, pi, t, ts, st, tr, i + 1)

\* as ForwardedArgs, with poll_interval and timeout passed in each other's place
ForwardedArgs_Swapped(j, pi, t) ==
    [job_id |-> j["id"], poll_interval |-> t, timeout |-> pi,
     terminal_statuses |-> None]

\* lines 214-218: the arguments submit_job_and_wait passes to wait_for_job
ForwardedArgs(j, pi, t) ==
    [job_id |-> j["id"], poll_interval |-> pi, timeout |-> t,
     terminal_statuses |-> None]

-----------------------------------------------------------------------------
(* The remote API and the clock: what one exchange can bring *)

ServerStatuses == {"queued", "running", "completed", "failed"}

\* what GET /jobs/{id} can answer
PollResponses(jid) ==
    {JsonResponse(200, [id |-> jid, status |-> s]) : s \in ServerStatuses}
    \cup {JsonResponse(200, [id |-> jid])}
    \cup {JsonResponse(c, [error |-> "boom"]) : c \in {404, 429, 500}}
    \cup {Response(400, NoContent),
          Response(502, TextContent("<html>Bad Gateway</html>")),
          JsonResponse(200, JsonArray(<<>>)),
          JsonResponse(500, JsonArray(<<"boom">>))}

\* what POST /jobs can answer
CreateResponses ==
    {JsonResponse(201, [id |-> "j2", status |-> "queued"])}
    \cup {Response(200, NoContent),
          JsonResponse(402, [error |-> "no credits"]),
          JsonResponse(403, [message |-> "scope"]),
          JsonResponse(500, EmptyDict),
          Response(502, TextContent("<html>Bad Gateway</html>")),
          JsonResponse(201, JsonArray(<<>>))}

\* what DELETE /jobs/{id} can answer
CancelResponses(jid) ==
    {JsonResponse(200, [id |-> jid, status |-> "cancelled"]),
     JsonResponse(404, [error |-> "boom"]),
     Response(504, TextContent("Gateway Timeout"))}

BaseKwargs ==
    [name |-> "n", instance_type |-> "1V100.6V", image |-> "img",
     location |-> "FIN-01", ssh_key_ids |-> <<"k1">>]

WithKeys(d, e) == [k \in DOMAIN d \cup DOMAIN e |-> IF k \in DOMAIN e THEN e[k] ELSE d[k]]

\* keyword arguments of submit_job the caller can pass
JobKwargs ==
    {BaseKwargs,
     WithKeys(BaseKwargs, [max_runtime_seconds |-> Some(60), provider |-> "p2"])}

\* terminal_statuses the caller can pass
TerminalArgs == {None, Some(<<"running", "failed">>)}

\* what the list and SSH-key endpoints can answer
EndpointResponses ==
    {JsonResponse(200, JsonArray(<<[id |-> "x1"]>>)),
     Response(200, NoContent),
     JsonResponse(401, [error |-> "bad key"]),
     JsonResponse(403, [message |-> "scope"]),
     Response(200, TextContent("OK")),
     JsonResponse(500, JsonArray(<<"boom">>))}

\* optional string arguments the caller can pass
OptStrings == {None, Some(""), Some("p2")}

Currencies == {"usd", "eur"}

-----------------------------------------------------------------------------
(* The state machine *)

Init ==
    /\ pc = "idle"
    /\ call = [op |-> "none"]
    /\ now = 0
    /\ job_id = ""
    /\ poll_interval = 0
    /\ timeout = 0
    /\ terminal_statuses = <<>>
    /\ start = 0
    /\ job = None
    /\ created = None
    /\ elapsed = None
    /\ response = None
    /\ result = None
    /\ requests = <<>>
    /\ trace = <<>>
    /\ sleeps = 0
    /\ classified = 0

\* lines 183-186: entry of wait_for_job with arguments a
EnterWaitForJob(a) ==
    /\ job_id' = a.job_id
    /\ poll_interval' = a.poll_interval
    /\ timeout' = a.timeout
    /\ terminal_statuses' = ResolveTerminal(a.terminal_statuses)
    /\ start' = now
    /\ pc' = "poll"

\* client.wait_for_job(jid, poll_interval=pi, timeout=t, terminal_statuses=ts)
CallWaitForJob ==
    /\ pc = "idle"
    /\ \E jid \in JobIds, pt \in Timings, ts \in TerminalArgs :
          LET a == [job_id |-> jid, poll_interval |-> pt[1], timeout |-> pt[2],
                    terminal_statuses |-> ts]
          IN  /\ call' = [op |-> "wait_for_job", args |-> a]
              /\ EnterWaitForJob(a)
    /\ UNCHANGED <<now, job, created, elapsed, response, result, requests, trace,
                   sleeps, classified>>

\* lines 188-196: get_job, the terminal test and the deadline test; the
\* transport answers within d seconds or raises.  A call with
\* poll_interval <= 0 is followed for MaxFetches fetches.
Poll ==
    /\ pc = "poll"
    /\ poll_interval > 0 \/ Len(trace) < MaxFetches
    /\ requests' = Append(requests, GetJobRequest(job_id))
    /\ \E d \in 0..MaxLatency :
          LET clock == now + d
          IN  /\ now' = clock
              /\ \/ \E resp \in PollResponses(job_id) :
                       LET b == LoopBody(job_id, poll_interval, timeout,
                                         terminal_statuses, start, resp, clock)
                           r == RequestOutcome(resp)
                           fetched == r.kind = "return"
                           tested == /\ fetched
                                     /\ IsDict(r.value)
                                     /\ ~IsTerminal(r.value, terminal_statuses)
                       IN  /\ response' = Some(resp)
                           /\ classified' = classified + Classifications(resp)
                           /\ trace' = Append(trace, [response |-> resp, clock |-> clock])
                           /\ job' = IF fetched THEN Some(r.value) ELSE job
                           /\ elapsed' = IF tested THEN Some(clock - start) ELSE elapsed
                           /\ pc' = b.next
                           /\ result' = b.result
                 \/ /\ result' = Raises(TransportError)
                    /\ pc' = "done"
                    /\ UNCHANGED <<response, classified, trace, job, elapsed>>
    /\ UNCHANGED <<call, job_id, poll_interval, timeout, terminal_statuses, start,
                   created, sleeps>>

\* line 197: time.sleep(poll_interval) returns after at least poll_interval
Sleep ==
    /\ pc = "sleep"
    /\ \E o \in 0..MaxOversleep : now' = now + poll_interval + o
    /\ sleeps' = sleeps + 1
    /\ pc' = "poll"
    /\ UNCHANGED <<call, job_id, poll_interval, timeout, terminal_statuses, start,
                   job, created, elapsed, response, result, requests, trace,
                   classified>>

\* client.submit_job_and_wait(poll_interval=pi, timeout=t, **kw)
CallSubmitJobAndWait ==
    /\ pc = "idle"
    /\ \E pt \in Timings, kw \in JobKwargs :
          call' = [op |-> "submit_job_and_wait", poll_interval |-> pt[1],
                   timeout |-> pt[2], job_kwargs |-> kw]
    /\ pc' = "create"
    /\ UNCHANGED <<now, job_id, poll_interval, timeout, terminal_statuses, start,
                   job, created, elapsed, response, result, requests, trace,
                   sleeps, classified>>

\* lines 213-218: submit_job(**job_kwargs), then the call of wait_for_job;
\* job["id"] raises TypeError on a list and KeyError on a dict without the key
SubmitJob ==
    /\ pc = "create"
    /\ requests' = Append(requests, SubmitJobRequest(call.job_kwargs))
    /\ \E d \in 0..MaxLatency :
          /\ now' = now + d
          /\ \/ \E resp \in CreateResponses :
                   LET r == RequestOutcome(resp)
                   IN  /\ response' = Some(resp)
                       /\ classified' = classified + Classifications(resp)
                       /\ IF r.kind = "raise"
                          THEN /\ result' = r
                               /\ pc' = "done"
                               /\ UNCHANGED <<created, job_id, poll_interval, timeout,
                                              terminal_statuses, start>>
                          ELSE IF ~IsDict(r.value)
                          THEN /\ created' = Some(r.value)
                               /\ result' = Raises(TypeError)
                               /\ pc' = "done"
                               /\ UNCHANGED <<job_id, poll_interval, timeout,
                                              terminal_statuses, start>>
                          ELSE IF "id" \notin DOMAIN r.value
                          THEN /\ created' = Some(r.value)
                               /\ result' = Raises(KeyError("id"))
                               /\ pc' = "done"
                               /\ UNCHANGED <<job_id, poll_interval, timeout,
                                              terminal_statuses, start>>
                          ELSE /\ created' = Some(r.value)
                               /\ result' = result
                               /\ LET a == ForwardedArgs(r.value, call.poll_interval,
                                                         call.timeout)
                                  IN  /\ job_id' = a.job_id
                                      /\ poll_interval' = a.poll_interval
                                      /\ timeout' = a.timeout
                                      /\ terminal_statuses' =
                                            ResolveTerminal(a.terminal_statuses)
                                      /\ start' = now'
                                      /\ pc' = "poll"
             \/ /\ result' = Raises(TransportError)
                /\ pc' = "done"
                /\ UNCHANGED <<response, classified, created, job_id, poll_interval,
                               timeout, terminal_statuses, start>>
    /\ UNCHANGED <<call, job, elapsed, trace, sleeps>>

\* lines 56-61 under a public method that is one request: c is the call, req the
\* request _request sends, resps what the server can answer
Dispatch(c, req, resps) ==
    /\ pc = "idle"
    /\ call' = c
    /\ requests' = Append(requests, req)
    /\ \E d \in 0..MaxLatency : now' = now + d
    /\ \/ \E resp \in resps :
             /\ response' = Some(resp)
             /\ classified' = classified + Classifications(resp)
             /\ result' = RequestOutcome(resp)
       \/ /\ result' = Raises(TransportError)
          /\ UNCHANGED <<response, classified>>
    /\ pc' = "done"
    /\ UNCHANGED <<job_id, poll_interval, timeout, terminal_statuses, start, job,
                   created, elapsed, trace, sleeps>>

\* client.list_jobs()
ListJobs == Dispatch([op |-> "list_jobs"], ListJobsRequest, EndpointResponses)

\* client.get_job(jid)
GetJob ==
    \E jid \in JobIds :
        Dispatch([op |-> "get_job", job_id |-> jid], GetJobRequest(jid),
                 PollResponses(jid))

\* client.submit_job(**kw)
CallSubmitJob ==
    \E kw \in JobKwargs :
        Dispatch([op |-> "submit_job", job_kwargs |-> kw], SubmitJobRequest(kw),
                 CreateResponses)

\* client.cancel_job(jid)
CancelJob ==
    \E jid \in JobIds :
        Dispatch([op |-> "cancel_job", job_id |-> jid], CancelJobRequest(jid),
                 CancelResponses(jid))

\* client.list_instance_types(currency, provider)
ListInstanceTypes ==
    \E currency \in Currencies, provider \in OptStrings :
        Dispatch([op |-> "list_instance_types", currency |-> currency,
                  provider |-> provider],
                 ListInstanceTypesRequest(currency, provider), EndpointResponses)

\* client.check_availability(instance_type, provider)
CheckAvailability ==
    \E instance_type \in OptStrings, provider \in OptStrings :
        Dispatch([op |-> "check_availability", instance_type |-> instance_type,
                  provider |-> provider],
                 CheckAvailabilityRequest(instance_type, provider), EndpointResponses)

\* client.list_locations(provider)
ListLocations ==
    \E provider \in OptStrings :
        Dispatch([op |-> "list_locations", provider |-> provider],
                 ListLocationsRequest(provider), EndpointResponses)

\* client.list_images(instance_type, provider)
ListImages ==
    \E instance_type \in OptStrings, provider \in OptStrings :
        Dispatch([op |-> "list_images", instance_type |-> instance_type,
                  provider |-> provider],
                 ListImagesRequest(instance_type, provider), EndpointResponses)

\* client.list_providers()
ListProviders ==
    Dispatch([op |-> "list_providers"], ListProvidersRequest, EndpointResponses)

\* client.list_ssh_keys()
ListSshKeys ==
    Dispatch([op |-> "list_ssh_keys"], ListSshKeysRequest, EndpointResponses)

\* client.add_ssh_key(name, public_key)
AddSshKey ==
    \E name \in {"k"}, public_key \in {"ssh-ed25519 AAAA"} :
        Dispatch([op |-> "add_ssh_key", name |-> name, public_key |-> public_key],
                 AddSshKeyRequest(name, public_key), EndpointResponses)

\* client.delete_ssh_key(key_id)
DeleteSshKey ==
    \E key_id \in {"x1"} :
        Dispatch([op |-> "delete_ssh_key", key_id |-> key_id],
                 DeleteSshKeyRequest(key_id), EndpointResponses)

Next ==
    \/ CallWaitForJob
    \/ Poll
    \/ Sleep
    \/ CallSubmitJobAndWait
    \/ SubmitJob
    \/ ListJobs
    \/ GetJob
    \/ CallSubmitJob
    \/ CancelJob
    \/ ListInstanceTypes
    \/ CheckAvailability
    \/ ListLocations
    \/ ListImages
    \/ ListProviders
    \/ ListSshKeys
    \/ AddSshKey
    \/ DeleteSshKey

Spec == Init /\ [][Next]_vars

\* the calling thread keeps running: a request sent is answered, a sleep ends
FairSpec == Spec /\ WF_vars(Poll) /\ WF_vars(Sleep) /\ WF_vars(SubmitJob)

-----------------------------------------------------------------------------
(* The classifier alone: raise_for_status applied to one (status code, body) *)

MaxStatusCode == 600
StatusCodes == (0 - 1)..MaxStatusCode
BodyKeys == {"error", "message", "detail"}
BodyValues == {"bad key", "x"}
Bodies == UNION {[ks -> BodyValues] : ks \in SUBSET BodyKeys}

ClassifierInit ==
    /\ pc = "classify"
    /\ call = [op |-> "raise_for_status"]
    /\ now = 0
    /\ job_id = ""
    /\ poll_interval = 0
    /\ timeout = 0
    /\ terminal_statuses = <<>>
    /\ start = 0
    /\ job = None
    /\ created = None
    /\ elapsed = None
    /\ \E c \in StatusCodes, b \in Bodies : response = Some(JsonResponse(c, b))
    /\ result = None
    /\ requests = <<>>
    /\ trace = <<>>
    /\ sleeps = 0
    /\ classified = 0

\* raise_for_status(response.status_code, body)
Classify ==
    /\ pc = "classify"
    /\ result' = raise_for_status(response.val.status_code,
                                  response.val.content.value)
    /\ classified' = classified + 1
    /\ pc' = "classified"
    /\ UNCHANGED <<call, now, job_id, poll_interval, timeout, terminal_statuses,
                   start, job, created, elapsed, response, requests, trace, sleeps>>

ClassifierNext == Classify

ClassifierSpec == ClassifierInit /\ [][ClassifierNext]_vars

TypeOK ==
    /\ pc \in {"idle", "create", "poll", "sleep", "done", "classify", "classified"}
    /\ now \in Nat
    /\ sleeps \in Nat
    /\ classified \in Nat

-----------------------------------------------------------------------------
(* Vocabulary of the properties *)

\* wait_for_job has been entered (directly or from submit_job_and_wait)
WaitCalled == job_id # ""

\* the arguments the caller meant for the poller
CallerJobId ==
    IF call.op = "wait_for_job" THEN call.args.job_id ELSE created.val["id"]
CallerPollInterval ==
    IF call.op = "wait_for_job" THEN call.args.poll_interval ELSE call.poll_interval
CallerTimeout ==
    IF call.op = "wait_for_job" THEN call.args.timeout ELSE call.timeout

\* the terminal set of the call: the caller's list, or the documented default
TerminalSet ==
    IF call.op = "wait_for_job" /\ call.args.terminal_statuses # None
    THEN {call.args.terminal_statuses.val[i] :
             i \in 1..Len(call.args.terminal_statuses.val)}
    ELSE {"completed", "failed", "cancelled"}

Fetches == Len(trace)

\* the i-th fetch was answered with a non-2xx status
FetchFailed(i) ==
    ~(200 <= trace[i].response.status_code /\ trace[i].response.status_code < 300)

\* the content of the i-th answer is empty or JSON
FetchParsed(i) == trace[i].response.content.kind \in {"empty", "json"}

\* the body of the i-th answer, when FetchParsed(i)
BodyAt(i) ==
    IF trace[i].response.content.kind = "empty"
    THEN EmptyDict
    ELSE trace[i].response.content.value

\* the i-th fetch was answered 2xx with a job record (a JSON object)
FetchOk(i) ==
    /\ ~FetchFailed(i)
    /\ FetchParsed(i)
    /\ IsDict(BodyAt(i))

\* the i-th fetch was answered 2xx with a status of the terminal set
FetchTerminal(i) ==
    /\ FetchOk(i)
    /\ "status" \in DOMAIN BodyAt(i)
    /\ BodyAt(i)["status"] \in TerminalSet

\* the i-th fetch was answered 2xx with a status outside the terminal set
FetchPending(i) == FetchOk(i) /\ ~FetchTerminal(i)

\* the clock difference the deadline check following the i-th fetch sees
ElapsedAt(i) == trace[i].clock - start

\* the call ended because the transport raised: a request got no response
TransportFailed ==
    /\ pc = "done"
    /\ result.kind = "raise"
    /\ result.exc.cls = "TransportError"

\* the requests that were answered: the completed HTTP exchanges
Completed == Len(requests) - (IF TransportFailed THEN 1 ELSE 0)

\* the call raised a failure of the SDK although its last HTTP exchange was a
\* success: the failure comes from the client, not from classifying an exchange
TimedOut ==
    /\ WaitCalled
    /\ pc = "done"
    /\ result.kind = "raise"
    /\ ~TransportFailed
    /\ Fetches > 0
    /\ FetchOk(Fetches)

\* the fetches that were answered
GetRequests ==
    {i \in 1..Completed : requests[i].method = "GET"}

-----------------------------------------------------------------------------
(* C1 *)

\* C1: wait_for_job returns only at a fetch whose status is in the terminal
\* set, and it returns the record of the first such fetch at once: when the
\* n-th fetch is the first terminal one the call has made exactly n fetches and
\* n-1 sleeps and its result is the n-th record, whatever the clock shows.
C1_ReturnsFirstTerminal ==
    WaitCalled =>
        /\ (pc = "done" /\ result.kind = "return") =>
              /\ Fetches >= 1
              /\ FetchTerminal(Fetches)
        /\ \A n \in 1..Fetches :
              FetchTerminal(n) =>
                  /\ n = Fetches
                  /\ \A i \in 1..(n - 1) : FetchPending(i)
                  /\ pc = "done"
                  /\ result = Returns(BodyAt(n))
                  /\ Cardinality(GetRequests) = n
                  /\ sleeps = n - 1

\* statuses queued, running, completed: 3 fetches, 2 sleeps, the completed
\* record, with the deadline already behind (the clock ran during the fetch)
C1_Witness ==
    /\ call.op = "wait_for_job"
    /\ call.args.terminal_statuses = None
    /\ pc = "done"
    /\ Fetches = 3
    /\ BodyAt(1) = [id |-> job_id, status |-> "queued"]
    /\ BodyAt(2) = [id |-> job_id, status |-> "running"]
    /\ result = Returns([id |-> job_id, status |-> "completed"])
    /\ sleeps = 2
    /\ poll_interval = 1
    /\ now - start > timeout

-----------------------------------------------------------------------------
(* C2 *)

\* the failure of the deadline check: the base class, no status code
IsTimeoutFailure(r) ==
    /\ r.kind = "raise"
    /\ r.exc.cls = "MimiryError"
    /\ r.exc.status_code = None

\* C2: the deadline check follows every non-terminal fetch and precedes the
\* sleep: a sleep is begun only when elapsed + poll_interval <= timeout at that
\* check, and when elapsed + poll_interval > timeout the call fails with Timeout
\* at once, with no sleep and no fetch after it.  No sleep is begun that is due
\* to end after the deadline.
C2_DeadlineBeforeSleep ==
    WaitCalled =>
        /\ pc = "sleep" =>
              /\ Fetches >= 1
              /\ FetchPending(Fetches)
              /\ sleeps = Fetches - 1
              /\ elapsed = Some(ElapsedAt(Fetches))
              /\ (now - start) + CallerPollInterval <= CallerTimeout
        /\ \A n \in 1..Fetches :
              /\ (FetchPending(n) /\ ElapsedAt(n) + CallerPollInterval > CallerTimeout) =>
                    /\ n = Fetches
                    /\ pc = "done"
                    /\ IsTimeoutFailure(result)
                    /\ sleeps = n - 1
                    /\ now = trace[n].clock
              /\ n <= sleeps => ElapsedAt(n) + CallerPollInterval <= CallerTimeout

\* a Timeout raised after a sleep while the deadline itself has not passed yet
C2_Witness ==
    /\ TimedOut
    /\ sleeps >= 1
    /\ CallerPollInterval > 0
    /\ ElapsedAt(Fetches) < CallerTimeout

-----------------------------------------------------------------------------
(* C3 *)

\* fetches took no time and every sleep lasted exactly poll_interval
Ideal == \A i \in 1..Fetches : trace[i].clock = start + (i - 1) * CallerPollInterval

\* the status of the last fetch as the message shows it
LastStatusText ==
    LET b == BodyAt(Fetches)
    IN  IF "status" \in DOMAIN b THEN b["status"] ELSE "None"

\* C3: with a job that never gets terminal, fetches that are answered in no time and
\* sleeps of exactly poll_interval > 0 (timeout >= 0), the call makes
\* floor(timeout / poll_interval) sleeps and one fetch more, then raises Timeout
\* with the job id, the timeout and the last status; at
\* elapsed + poll_interval = timeout it still sleeps.
C3_TimeoutCounts ==
    ( /\ WaitCalled
      /\ CallerPollInterval > 0
      /\ CallerTimeout >= 0
      /\ Ideal
      /\ ~TransportFailed
      /\ \A i \in 1..Fetches : FetchPending(i) ) =>
        LET q == CallerTimeout \div CallerPollInterval
        IN  /\ Fetches <= q + 1
            /\ sleeps <= q
            /\ pc = "done" =>
                  /\ Fetches = q + 1
                  /\ sleeps = q
                  /\ IsTimeoutFailure(result)
                  /\ result.exc.message[2] = CallerJobId
                  /\ result.exc.message[4] = CallerTimeout
                  /\ result.exc.message[6] = LastStatusText
            /\ (Fetches >= 1 /\ sleeps = Fetches - 1
                  /\ ElapsedAt(Fetches) + CallerPollInterval = CallerTimeout) =>
                  pc = "sleep"

\* poll_interval=10, timeout=25, a job stuck in running: fetches at elapsed 0,
\* 10 and 20, two sleeps, Timeout with last status running
C3_Witness ==
    /\ TimedOut
    /\ CallerPollInterval = DefaultPollInterval
    /\ CallerTimeout = LongTimeout
    /\ Fetches = 3
    /\ sleeps = 2
    /\ \A i \in 1..3 : /\ BodyAt(i) = [id |-> job_id, status |-> "running"]
                       /\ ElapsedAt(i) = (i - 1) * DefaultPollInterval
    /\ result.exc.message[6] = "running"

-----------------------------------------------------------------------------
(* C4, C5: the classifier *)

\* the kind the classification table gives a non-2xx status
ExpectedKind(c) ==
    IF c = 401 THEN "AuthenticationError"
    ELSE IF c = 402 THEN "InsufficientCreditsError"
    ELSE IF c = 403 THEN "InsufficientScopeError"
    ELSE IF c = 404 THEN "NotFoundError"
    ELSE IF c = 429 THEN "RateLimitError"
    ELSE IF c >= 500 THEN "ServerError"
    ELSE "MimiryError"

\* C4: raise_for_status raises nothing for 200 <= status < 300; otherwise it
\* raises the kind of the table (401, 402, 403, 404, 429), else Server for
\* status >= 500, else Generic; the failure carries the status and the body.
C4_Classification ==
    pc = "classified" =>
        LET c == response.val.status_code
            b == response.val.content.value
        IN  IF c \in 200..299
            THEN result.kind = "return"
            ELSE /\ result.kind = "raise"
                 /\ result.exc.cls = ExpectedKind(c)
                 /\ result.exc.status_code = Some(c)
                 /\ result.exc.response_body = b

\* status 422 with a body: Generic, carrying both
C4_Witness ==
    /\ pc = "classified"
    /\ response.val.status_code = 422
    /\ response.val.content.value = [detail |-> "x"]
    /\ result.kind = "raise"
    /\ result.exc.cls = "MimiryError"
    /\ result.exc.response_body = [detail |-> "x"]

\* C5: the message of the failure is the value at key error when present, else
\* the value at key message when present, else "Unknown error", whatever the
\* status code.
C5_Message ==
    (pc = "classified" /\ result.kind = "raise") =>
        LET b == response.val.content.value
        IN  result.exc.message =
               IF "error" \in DOMAIN b THEN b["error"]
               ELSE IF "message" \in DOMAIN b THEN b["message"]
               ELSE "Unknown error"

\* a body with both keys: the value at error wins
C5_Witness ==
    /\ pc = "classified"
    /\ result.kind = "raise"
    /\ response.val.content.value = [error |-> "bad key", message |-> "x"]
    /\ result.exc.message = "bad key"

-----------------------------------------------------------------------------
(* C6 *)

\* the payload the caller's keyword arguments ask for: every argument passed
\* appears with its value, except a max_runtime_seconds of None
PayloadCarries(json, kw) ==
    /\ \A k \in DOMAIN kw \ {"max_runtime_seconds"} :
          k \in DOMAIN json /\ json[k] = kw[k]
    /\ IF "max_runtime_seconds" \in DOMAIN kw /\ kw["max_runtime_seconds"] # None
       THEN /\ "max_runtime_seconds" \in DOMAIN json
            /\ json["max_runtime_seconds"] = kw["max_runtime_seconds"].val
       ELSE "max_runtime_seconds" \notin DOMAIN json

\* two results of a call are the same return value or the same failure
SameResult(a, b) ==
    /\ a # None
    /\ b # None
    /\ a.kind = b.kind
    /\ a.kind = "return" => a.value = b.value
    /\ a.kind = "raise" =>
          /\ a.exc.cls = b.exc.cls
          /\ a.exc = b.exc

\* C6: submit_job_and_wait makes exactly one create-job call, with the caller's
\* keyword arguments, then polls the id of the created job with the caller's
\* poll_interval and timeout; its outcome is that of wait_for_job alone on that
\* id for the same answers of the server, and a failed create is followed by no
\* fetch.
C6_SubmitThenWait ==
    (call.op = "submit_job_and_wait" /\ pc # "create") =>
        /\ Len(requests) >= 1
        /\ requests[1].method = "POST"
        /\ requests[1].path = <<"jobs">>
        /\ PayloadCarries(requests[1].json, call.job_kwargs)
        /\ \A i \in 2..Len(requests) : requests[i].method # "POST"
        /\ created = None =>
              /\ Len(requests) = 1
              /\ pc = "done"
              /\ result.kind = "raise"
        /\ WaitCalled =>
              /\ job_id = created.val["id"]
              /\ poll_interval = call.poll_interval
              /\ timeout = call.timeout
              /\ \A i \in 2..Len(requests) :
                    /\ requests[i].method = "GET"
                    /\ requests[i].path = <<"jobs", created.val["id"]>>
              /\ Completed = 1 + Fetches
              /\ (pc = "done" /\ ~TransportFailed) =>
                    SameResult(result,
                               WaitForJobRun(created.val["id"], call.poll_interval,
                                             call.timeout, DefaultTerminalStatuses,
                                             start, trace, 1))

\* a job created and polled to completion on its second fetch
C6_Witness ==
    /\ call.op = "submit_job_and_wait"
    /\ call.poll_interval = 2
    /\ call.timeout = 1 + 1
    /\ pc = "done"
    /\ created = Some([id |-> "j2", status |-> "queued"])
    /\ Fetches = 2
    /\ result = Returns([id |-> "j2", status |-> "completed"])

-----------------------------------------------------------------------------
(* C7 *)

\* the requests sent from inside wait_for_job
PollerRequests ==
    IF call.op = "wait_for_job" THEN 1..Len(requests) ELSE 2..Len(requests)

\* C7: whatever way wait_for_job ends, every request it sends is a
\* GET /jobs/{id} for its job id: it creates nothing and cancels nothing.
C7_OnlyGets ==
    WaitCalled =>
        /\ \A i \in PollerRequests :
              /\ requests[i].method = "GET"
              /\ requests[i].path = <<"jobs", CallerJobId>>
        /\ Cardinality(PollerRequests) = Fetches + (IF TransportFailed THEN 1 ELSE 0)

\* a call that timed out after three fetches
C7_Witness ==
    /\ call.op = "wait_for_job"
    /\ TimedOut
    /\ IsTimeoutFailure(result)
    /\ Len(requests) = 3

-----------------------------------------------------------------------------
(* C8 *)

\* the classes the classifier raises
ClassifierKinds ==
    {raise_for_status(c, EmptyDict).exc.cls : c \in StatusCodes \ (200..299)}

\* the status codes the failures of the classifier carry
ClassifierStatusCodes ==
    {raise_for_status(c, EmptyDict).exc.status_code : c \in StatusCodes \ (200..299)}

\* C8 as claimed: the failure raised on timeout is of a kind the classifier
\* cannot produce, in particular not the Generic kind.
C8_TimeoutKindDistinct ==
    TimedOut => result.exc.cls \notin ClassifierKinds

\* C8 as amended: the failure raised on timeout comes from the deadline check
\* alone, every exchange of the poller having been classified a success; it is
\* of the base class, which is the Generic kind of the classifier, and it
\* differs from every failure of the classifier in carrying no status code.
C8_TimeoutClientSide ==
    TimedOut =>
        /\ FetchPending(Fetches)
        /\ ElapsedAt(Fetches) + CallerPollInterval > CallerTimeout
        /\ \A i \in 1..Fetches : FetchOk(i)
        /\ classified = Len(requests)
        /\ Completed = Len(requests)
        /\ result.exc.cls = "MimiryError"
        /\ result.exc.cls = raise_for_status(400, EmptyDict).exc.cls
        /\ result.exc.status_code = None
        /\ result.exc.response_body = EmptyDict
        /\ result.exc.status_code \notin ClassifierStatusCodes

\* a Timeout raised at the second fetch of submit_job_and_wait
C8_Witness ==
    /\ TimedOut
    /\ call.op = "submit_job_and_wait"
    /\ Fetches = 2

-----------------------------------------------------------------------------
(* C9 *)

\* C9: a fetch answered with a non-2xx status ends wait_for_job at once with the
\* classified failure of that exchange (its kind, status code and body), with
\* no fetch and no sleep after it, and every completed exchange is classified
\* exactly once.
C9_FetchFailureSurfaces ==
    WaitCalled =>
        /\ \A n \in 1..Fetches :
              FetchFailed(n) =>
                  /\ n = Fetches
                  /\ pc = "done"
                  /\ result.kind = "raise"
                  /\ result.exc.cls = ExpectedKind(trace[n].response.status_code)
                  /\ result.exc.status_code = Some(trace[n].response.status_code)
                  /\ result.exc.response_body = BodyAt(n)
                  /\ sleeps = n - 1
                  /\ Cardinality(GetRequests) = n
        /\ classified = Completed

-----------------------------------------------------------------------------
(* C10 *)

C10_Bound ==
    WaitCalled =>
        LET attempts == Cardinality(PollerRequests)
        IN  /\ Fetches <= attempts
            /\ pc = "done" => attempts >= 1
            /\ CallerPollInterval > 0 =>
                  /\ CallerTimeout >= 0 =>
                        attempts <= (CallerTimeout \div CallerPollInterval) + 1
                  /\ CallerTimeout < CallerPollInterval => attempts <= 1
                  /\ (pc = "done" /\ CallerTimeout < CallerPollInterval) => attempts = 1

C10_Running == WaitCalled /\ CallerPollInterval > 0

C10_Ended == pc = "done" /\ result # None

\* C10: with poll_interval > 0, fetches that return and sleeps of at least
\* poll_interval, every call of wait_for_job ends, after at most
\* floor(timeout / poll_interval) + 1 fetches when timeout >= 0 and after exactly
\* one fetch when timeout < poll_interval; it always makes at least one fetch.
C10_Terminates == []C10_Bound /\ (C10_Running ~> C10_Ended)

\* a call that used all the fetches its timeout allows, the clock running on
C10_Witness ==
    /\ WaitCalled
    /\ pc = "done"
    /\ CallerPollInterval = 1
    /\ CallerTimeout = 1 + 1
    /\ Fetches = 3
    /\ now - start > CallerTimeout

====
